---- MODULE Spec2Model ----
(***************************************************************************)
(* Model of src/redo/src/network_components.py: SpectralNormalization,     *)
(* SelfAttentionModule and ResidualBlock.                                  *)
(*                                                                         *)
(* Real numbers are fixed-point integers: the real r is the integer        *)
(* r * Scale.  A tensor's values are a flat row-major sequence.  Shapes    *)
(* are sequences of naturals.                                              *)
(***************************************************************************)
EXTENDS Integers, Sequences, FiniteSets, TLC

VARIABLES
    \* ---- one SpectralNormalization instance (value level) ----
    init,                \* self.init
    u,                   \* self.u, length layer.filters
    n_power_iterations,  \* self.n_power_iterations
    layer,               \* the wrapped Conv2D
    last,                \* record of the most recent operation on the instance
    prev,                \* summary of the operation before it
    initCount,           \* how many times the initialisation branch has run
    \* ---- one SelfAttentionModule (shape level, gate at value level) ----
    sa,                  \* the module: configuration, gamma, its four wrapped convolutions
    saRes,               \* result of the most recent constructor or call
    \* ---- one ResidualBlock (shape level) ----
    rb,                  \* the block: configuration and its three wrapped convolutions
    rbRes,               \* result of the most recent call
    \* ---- the tensor framework the layers run on ----
    fw                   \* which of the framework's admissible behaviours this build has

snVars == <<init, u, n_power_iterations, layer, last, prev, initCount>>
saVars == <<sa, saRes>>
rbVars == <<rb, rbRes>>
vars == <<init, u, n_power_iterations, layer, last, prev, initCount, sa, saRes, rb, rbRes, fw>>

----------------------------------------------------------------------------
(* Bounds of the model *)

\* fixed-point resolution: one unit is 1/Scale
Scale == 16
\* largest n_power_iterations an instance is constructed with
MaxPowerIter == 2

----------------------------------------------------------------------------
(* Fixed-point arithmetic *)

\* epsilon of normalize_l2 (1e-12): the smallest positive fixed-point number
Epsilon == 1

\* the value of an element that is inf or nan (a quotient by zero, and
\* everything computed from one)
NonFinite == -999999999

Abs(a) == IF a < 0 THEN -a ELSE a

\* quotient of integers, rounded toward zero; b # 0
TDiv(a, b) ==
    IF (a >= 0) = (b > 0) THEN Abs(a) \div Abs(b) ELSE -(Abs(a) \div Abs(b))

FMul(a, b) ==
    IF a = NonFinite \/ b = NonFinite THEN NonFinite ELSE TDiv(a * b, Scale)

FAdd(a, b) ==
    IF a = NonFinite \/ b = NonFinite THEN NonFinite ELSE a + b

\* a / b in floating point: a quotient by zero is inf or nan, not an error
FQuot(a, b) ==
    IF a = NonFinite \/ b = NonFinite \/ b = 0 THEN NonFinite ELSE TDiv(a * Scale, b)

\* a function on 1..n as an explicit sequence
Vec(f) == f \o <<>>

RECURSIVE SumSeq(_)
SumSeq(s) == IF s = <<>> THEN 0 ELSE FAdd(Head(s), SumSeq(Tail(s)))

\* sqrt(sum(v**2)) for a finite v
Norm2(v) ==
    LET sq == SumSeq(Vec([k \in DOMAIN v |-> v[k] * v[k]]))
        hi == SumSeq(Vec([k \in DOMAIN v |-> Abs(v[k])]))
    IN CHOOSE r \in 0..hi : r * r <= sq /\ (r + 1) * (r + 1) > sq

\* SpectralNormalization.normalize_l2
normalize_l2(v) ==
    IF \E k \in DOMAIN v : v[k] = NonFinite
    THEN Vec([k \in DOMAIN v |-> NonFinite])
    ELSE LET d == Norm2(v) + Epsilon
         IN Vec([k \in DOMAIN v |-> TDiv(v[k] * Scale, d)])

----------------------------------------------------------------------------
(* Matrices: W is the flat kernel read as [rows, -1], row-major *)

Cols(W, rows) == Len(W) \div rows
At(W, rows, r, c) == W[(r - 1) * Cols(W, rows) + c]

\* tf.matmul(W, u, transpose_a=True): [N, 1]
MatTVec(W, rows, uu) ==
    Vec([c \in 1..Cols(W, rows) |->
        SumSeq(Vec([r \in 1..rows |-> FMul(At(W, rows, r, c), uu[r])]))])

\* tf.matmul(W, v): [rows, 1]
MatVec(W, rows, v) ==
    Vec([r \in 1..rows |->
        SumSeq(Vec([c \in 1..Cols(W, rows) |-> FMul(At(W, rows, r, c), v[c])]))])

\* tf.matmul(tf.matmul(u, W, transpose_a=True), v): [1, 1]
Bilinear(uu, W, rows, v) ==
    LET uW == Vec([c \in 1..Cols(W, rows) |->
                  SumSeq(Vec([r \in 1..rows |-> FMul(uu[r], At(W, rows, r, c))]))])
    IN SumSeq(Vec([c \in 1..Cols(W, rows) |-> FMul(uW[c], v[c])]))

----------------------------------------------------------------------------
(* The wrapped Conv2D.  layer.weights is the list of variables the layer   *)
(* tracks, in creation order; get_weights/set_weights go through it.       *)

Last(s) == s[Len(s)]

HasVar(l, name) == \E k \in DOMAIN l.weights : l.weights[k].name = name
Var(l, name) == l.weights[CHOOSE k \in DOMAIN l.weights : l.weights[k].name = name].val

\* Conv2D.build on the first forward pass: kernel [1, 1, in, filters] drawn by
\* the orthogonal initializer (K), bias [filters] zeros when use_bias
BuildConv(l, x, K) ==
    [l EXCEPT !.built = TRUE,
              !.kernel_is_var = TRUE,
              !.weights =
                  <<[name |-> "kernel", shape |-> <<1, 1, Len(x), l.filters>>, val |-> K]>>
                  \o (IF l.use_bias
                      THEN <<[name |-> "bias", shape |-> <<l.filters>>,
                              val |-> Vec([o \in 1..l.filters |-> 0])]>>
                      ELSE <<>>)]

\* value of the attribute layer.kernel: the tracked variable until call
\* assigns a plain tensor to it
KernelValue(l) == IF l.kernel_is_var THEN Var(l, "kernel") ELSE l.kernel

\* layer.add_weight('kernel_orig', layer.kernel.shape, trainable=True): a new
\* tracked variable, filled by the default initializer (G)
AddKernelOrig(l, G) ==
    [l EXCEPT !.weights = Append(l.weights,
        [name |-> "kernel_orig", shape |-> l.weights[1].shape, val |-> G])]

get_weights(l) == Vec([k \in DOMAIN l.weights |-> l.weights[k].val])

set_weights(l, ws) ==
    [l EXCEPT !.weights =
        Vec([k \in DOMAIN l.weights |-> [l.weights[k] EXCEPT !.val = ws[k]]])]

\* the list call hands to set_weights, lines 69-74
CopiedWeights(weights) ==
    IF Len(weights) = 2
    THEN <<weights[1], weights[1]>>
    ELSE <<weights[1], weights[2], weights[1]>>

\* the initialisation branch of call, lines 58-74
CopyKernel(l1) == set_weights(l1, CopiedWeights(get_weights(l1)))

InitBranch(l, x, K, G) == CopyKernel(AddKernelOrig(BuildConv(l, x, K), G))

\* layer.kernel = W_sn: the attribute now holds a plain tensor, and the
\* variable it held is no longer tracked by the layer
AssignKernel(l, W_sn) ==
    [l EXCEPT !.kernel_is_var = FALSE,
              !.kernel = W_sn,
              !.weights = SelectSeq(l.weights, LAMBDA w : w.name # "kernel")]

\* the forward pass of the 1x1 convolution on one pixel x (length in):
\* out[o] = sum_i x[i] * kernel[i, o] (+ bias[o])
ConvForward(l, x) ==
    LET K == KernelValue(l)
        F == l.filters
    IN Vec([o \in 1..F |->
          FAdd(SumSeq(Vec([i \in 1..Len(x) |-> FMul(x[i], K[(i - 1) * F + o])])),
               IF l.use_bias THEN Var(l, "bias")[o] ELSE 0)])

----------------------------------------------------------------------------
(* SpectralNormalization *)

\* the result of one pass of the loop body: line 141 and the pair returned
PowerStepResult(W, rows, v, un) ==
    [spectral_norm |-> Bilinear(un, W, rows, v), u |-> un]

\* line 140, given the v of line 139
PowerStepFrom(W, rows, v) ==
    PowerStepResult(W, rows, v, normalize_l2(MatVec(W, rows, v)))

\* one pass of the loop body of power_iteration, lines 139-141, reading the
\* singular-vector estimate su
PowerStep(W, rows, su) ==
    PowerStepFrom(W, rows, normalize_l2(MatTVec(W, rows, su)))

\* the vector a pass of the loop starts from: line 139 reads self.u, not the
\* u the previous pass assigned
LoopReads(selfu, localu) == selfu

RECURSIVE PowerLoop(_, _, _, _, _)
PowerLoop(W, rows, selfu, k, acc) ==
    IF k = 0
    THEN acc
    ELSE PowerLoop(W, rows, selfu, k - 1, PowerStep(W, rows, LoopReads(selfu, acc.u)))

\* SpectralNormalization.power_iteration, n >= 1 passes
power_iteration(W, rows, selfu, n) ==
    PowerLoop(W, rows, selfu, n, [spectral_norm |-> NonFinite, u |-> selfu])

\* a variant that normalises the kernel attribute the convolution holds
W_origFromKernel(l) == KernelValue(l)

\* the weights normalize_weights reads as W_orig, line 107
W_origOf(l) == Var(l, "kernel_orig")

\* a variant that persists the new estimate on every pass
AssignUAlways(training, selfu, unew) == unew

\* self.u after normalize_weights, lines 118-120
AssignU(training, selfu, unew) == IF training THEN unew ELSE selfu

\* lines 115-122 of normalize_weights, given the pair power_iteration returned
NormalizeWith(W_orig, selfu, training, pi) ==
    [W_sn          |-> Vec([k \in DOMAIN W_orig |-> FQuot(W_orig[k], pi.spectral_norm)]),
     spectral_norm |-> pi.spectral_norm,
     u_computed    |-> pi.u,
     u             |-> AssignU(training, selfu, pi.u)]

\* SpectralNormalization.normalize_weights; filters is read off the first
\* tracked variable, line 104
normalize_weights(l, selfu, n, training) ==
    NormalizeWith(W_origOf(l), selfu, training,
                  power_iteration(W_origOf(l), Last(l.weights[1].shape), selfu, n))

\* whether call takes the initialisation branch, line 56
InitNeeded(flag) == ~flag

\* a variant that never sets the flag
InitAfterUnset(flag) == flag

\* self.init after call, line 77
InitAfter(flag) == TRUE

----------------------------------------------------------------------------
(* Values the environment supplies to the SpectralNormalization instance *)

\* inputs: one pixel with three channels
Inputs == { <<Scale, 0, -Scale>>, <<2 * Scale, Scale, Scale>> }

\* kernels [1, 1, 3, 2] the orthogonal initializer can draw (orthogonal columns)
OrthogonalKernels ==
    { <<Scale, 0, 0, Scale, 0, 0>>,
      <<0, 2 * Scale, 0, 0, 2 * Scale, 0>>,
      <<Scale, Scale, Scale, -Scale, 0, 0>> }

\* what the default initializer puts in kernel_orig before it is overwritten
DefaultKernel == <<7, -7, 7, -7, 7, -7>>

\* values a gradient step can leave in kernel_orig
TrainedKernels ==
    { <<2 * Scale, Scale, 0, -Scale, Scale, 0>>,
      <<Scale, Scale, Scale, Scale, Scale, Scale>>,
      <<0, 0, 0, 0, 0, 0>> }

\* values a gradient step can leave in the bias
TrainedBiases == { <<0, 0>>, <<Scale, -Scale>> }

\* values the random-normal initializer can give u
InitialU == { <<Scale, Scale>>, <<Scale, 0>>, <<-Scale, 2 * Scale>> }

NoOp == [op |-> "none", x |-> <<>>, training |-> FALSE, first |-> FALSE,
         output |-> <<>>, uEntry |-> <<>>, origEntry |-> <<>>, biasEntry |-> <<>>,
         builtKernel |-> <<>>, spectral_norm |-> 0, u_computed |-> <<>>]

Summary(r) == [op |-> r.op, x |-> r.x, training |-> r.training, first |-> r.first,
               output |-> r.output]

\* SpectralNormalization.__init__, lines 29-44, around a Conv2D with 2 filters
SNInit ==
    /\ init = FALSE
    /\ u \in InitialU
    /\ n_power_iterations \in 1..MaxPowerIter
    /\ \E b \in BOOLEAN :
          layer = [filters |-> 2, use_bias |-> b, built |-> FALSE,
                   kernel_is_var |-> FALSE, kernel |-> <<>>, weights |-> <<>>]
    /\ last = NoOp
    /\ prev = Summary(NoOp)
    /\ initCount = 0

\* SpectralNormalization.call(x, training); K and G are the initializers' draws,
\* used only by the initialisation branch
SNCallDo(x, training, first, l0, nw, l1) ==
    /\ init' = (IF first THEN InitAfter(init) ELSE init)
    /\ initCount' = initCount + (IF first THEN 1 ELSE 0)
    /\ layer' = l1
    /\ u' = nw.u
    /\ last' = [op |-> "call", x |-> x, training |-> training, first |-> first,
                output |-> ConvForward(l1, x),
                uEntry |-> u,
                origEntry |-> IF HasVar(layer, "kernel_orig")
                              THEN Var(layer, "kernel_orig") ELSE <<>>,
                biasEntry |-> IF HasVar(layer, "bias") THEN Var(layer, "bias") ELSE <<>>,
                builtKernel |-> IF first THEN KernelValue(l0) ELSE <<>>,
                spectral_norm |-> nw.spectral_norm,
                u_computed |-> nw.u_computed]
    /\ prev' = Summary(last)
    /\ UNCHANGED n_power_iterations

\* lines 80-88: normalise (nw), assign the kernel, run the convolution
SNCallNormalized(x, training, first, l0, nw) ==
    SNCallDo(x, training, first, l0, nw, AssignKernel(l0, nw.W_sn))

\* lines 79-90, from the layer l0 the initialisation branch leaves
SNCallFrom(x, training, first, l0) ==
    SNCallNormalized(x, training, first, l0,
                     normalize_weights(l0, u, n_power_iterations, training))

SNCall(x, training, K, G) ==
    SNCallFrom(x, training, InitNeeded(init),
               IF InitNeeded(init) THEN InitBranch(layer, x, K, G) ELSE layer)

SNCallAny ==
    /\ \E x \in Inputs, training \in BOOLEAN :
         \E K \in (IF init THEN {<<>>} ELSE OrthogonalKernels) :
            SNCall(x, training, K, DefaultKernel)
    /\ UNCHANGED <<sa, saRes, rb, rbRes, fw>>

\* an optimizer step between two calls: it writes the trainable variables the
\* layer tracks (kernel_orig, line 60, and the bias), nothing else
OptimizerStep ==
    /\ init
    /\ \E Kn \in TrainedKernels, bn \in TrainedBiases :
          /\ layer' = [layer EXCEPT !.weights =
                 Vec([k \in DOMAIN layer.weights |->
                    IF layer.weights[k].name = "kernel_orig"
                    THEN [layer.weights[k] EXCEPT !.val = Kn]
                    ELSE IF layer.weights[k].name = "bias"
                    THEN [layer.weights[k] EXCEPT !.val = bn]
                    ELSE layer.weights[k]])]
          /\ layer' # layer
    /\ last' = [NoOp EXCEPT !.op = "opt"]
    /\ prev' = Summary(last)
    /\ UNCHANGED <<init, u, n_power_iterations, initCount, sa, saRes, rb, rbRes, fw>>

----------------------------------------------------------------------------
(* Shapes.  A shape is a sequence of dimensions; an operation on shapes    *)
(* gives [ok, shape], ok = FALSE when the framework raises.                *)

Ok(shape) == [ok |-> TRUE, shape |-> shape]
Raise == [ok |-> FALSE, shape |-> <<>>]

RECURSIVE Prod(_)
Prod(shape) == IF shape = <<>> THEN 1 ELSE Head(shape) * Prod(Tail(shape))

\* tf.reshape(t, target) with exactly one -1 in target: the missing dimension
\* is inferred from the element count; it cannot be inferred when a given
\* dimension is 0, and the given dimensions must divide the count
ReshapeInfer(shape, target, known) ==
    IF known = 0 \/ Prod(shape) % known # 0
    THEN Raise
    ELSE Ok(Vec([k \in DOMAIN target |->
                   IF target[k] = -1 THEN Prod(shape) \div known ELSE target[k]]))

Reshape(shape, target) ==
    ReshapeInfer(shape, target,
                 Prod(Vec([k \in DOMAIN target |-> IF target[k] = -1 THEN 1 ELSE target[k]])))

\* tf.matmul(a, b) on [Ba, m, k] and [Bb, k, n]: the inner dimensions must
\* agree and the batch dimensions must be equal or one of them 1
MatMul(a, b) ==
    IF a[3] # b[2] THEN Raise
    ELSE IF a[1] = b[1] THEN Ok(<<a[1], a[2], b[3]>>)
    ELSE IF a[1] = 1 THEN Ok(<<b[1], a[2], b[3]>>)
    ELSE IF b[1] = 1 THEN Ok(<<a[1], a[2], b[3]>>)
    ELSE Raise

\* the transpose of the last two dimensions (transpose_b=True)
TransposeLast(b) == <<b[1], b[3], b[2]>>

\* a + b on tensors of rank 4: dimensions must be equal or one of them 1
BroadcastAdd(a, b) ==
    IF \A k \in 1..4 : a[k] = b[k] \/ a[k] = 1 \/ b[k] = 1
    THEN Ok(Vec([k \in 1..4 |-> IF a[k] = 1 THEN b[k] ELSE a[k]]))
    ELSE Raise

\* one spatial dimension through a pooling window of 2 with stride 2 and no
\* padding; a dimension below the window gives an empty output on some
\* builds and raises on others (-1 stands for raising)
PoolDim(d) == IF d >= 2 THEN d \div 2 ELSE IF fw.emptyPool THEN 0 ELSE -1

\* MaxPool2D / AveragePooling2D with pool_size=(2, 2) on [B, H, W, C]
Pool(shape) ==
    IF PoolDim(shape[2]) < 0 \/ PoolDim(shape[3]) < 0
    THEN Raise
    ELSE Ok(<<shape[1], PoolDim(shape[2]), PoolDim(shape[3]), shape[4]>>)

\* one spatial dimension through a convolution: kernel 1 without padding, or
\* kernel 3 with padding 'same', both ceil(d / stride)
ConvDim(d, stride) == (d + stride - 1) \div stride

----------------------------------------------------------------------------
(* SpectralNormalization at the level of shapes: sn = [filters, ksize,     *)
(* strides, in_ch, init]; in_ch is the channel count the convolution was   *)
(* built for (0 before it is built).                                       *)

\* SpectralNormalization(Conv2D(filters=..., kernel_size=..., strides=...))
NewSN(filters, ksize, strides) ==
    [filters |-> filters, ksize |-> ksize, strides |-> strides, in_ch |-> 0, init |-> FALSE]

\* Conv2D(filters=0, ...): accepted by some builds of the framework,
\* rejected by others
ConvAccepted(filters) == filters > 0 \/ ~fw.strictFilters

\* SpectralNormalization.call on an input of shape xs = [B, H, W, C]:
\* [ok, shape, sn].  A built convolution accepts only the channel count it
\* was built for.  With filters = 0, tf.reshape(W_orig, [filters, -1]) of
\* line 110 cannot infer the missing dimension and raises.
SNCallShape(sn, xs) ==
    IF sn.in_ch # 0 /\ sn.in_ch # xs[4]
    THEN [ok |-> FALSE, shape |-> <<>>, sn |-> sn]
    ELSE IF ~Reshape(<<sn.ksize, sn.ksize, xs[4], sn.filters>>, <<sn.filters, -1>>).ok
    THEN [ok |-> FALSE, shape |-> <<>>, sn |-> [sn EXCEPT !.in_ch = xs[4], !.init = TRUE]]
    ELSE [ok |-> TRUE,
          shape |-> <<xs[1], ConvDim(xs[2], sn.strides), ConvDim(xs[3], sn.strides), sn.filters>>,
          sn |-> [sn EXCEPT !.in_ch = xs[4], !.init = TRUE]]

----------------------------------------------------------------------------
(* SelfAttentionModule *)

\* self.key_size, lines 174-177; keyArg = [given, val] is the key_size argument
KeySize(output_channels, keyArg) ==
    IF ~keyArg.given THEN output_channels \div 8 ELSE keyArg.val

\* the value gamma is created with, line 182
InitialGamma == 0

\* SelfAttentionModule.__init__: the module, or status "error" when a
\* Conv2D constructor raises
NewSA(output_channels, keyArg) ==
    IF /\ ConvAccepted(KeySize(output_channels, keyArg))
       /\ ConvAccepted(output_channels \div 2)
       /\ ConvAccepted(output_channels)
    THEN [status |-> "ok",
          output_channels |-> output_channels,
          key_given |-> keyArg.given,
          key_size |-> KeySize(output_channels, keyArg),
          gamma |-> InitialGamma,
          f   |-> NewSN(KeySize(output_channels, keyArg), 1, 1),
          g   |-> NewSN(KeySize(output_channels, keyArg), 1, 1),
          h   |-> NewSN(output_channels \div 2, 1, 1),
          out |-> NewSN(output_channels, 1, 1)]
    ELSE [status |-> "error",
          output_channels |-> output_channels,
          key_given |-> keyArg.given,
          key_size |-> KeySize(output_channels, keyArg),
          gamma |-> InitialGamma,
          f |-> <<>>, g |-> <<>>, h |-> <<>>, out |-> <<>>]

\* The state of one compute_attention call: the module m, the input shape x
\* and the shape of every intermediate tensor computed so far (<<>> before).
StartAttention(m, x) ==
    [ok |-> TRUE, m |-> m, x |-> x, fr |-> <<>>, fx |-> <<>>, gr |-> <<>>, gp |-> <<>>,
     gx |-> <<>>, s |-> <<>>, hr |-> <<>>, hp |-> <<>>, hx |-> <<>>, mm |-> <<>>,
     interim |-> <<>>, o |-> <<>>]

\* record the outcome r of a shape operation as intermediate `name`
Got(t, name, r) == [t EXCEPT !.ok = r.ok, ![name] = r.shape]

\* record the outcome r of calling the wrapped convolution `conv`
GotSN(t, conv, name, r) == [t EXCEPT !.ok = r.ok, ![name] = r.shape, !.m[conv] = r.sn]

\* the target of the reshape of the pooled g features, line 233
GxTarget(h, w, key_size) == <<-1, (h * w) \div 4, key_size>>

\* a variant that forgets that h has half the channels
HxTargetUnhalved(h, w, c) == <<-1, (h * w) \div 4, c>>

\* the target of the reshape of the pooled h features, line 240
HxTarget(h, w, c) == <<-1, (h * w) \div 4, c \div 2>>

\* line 228
CA_f(t)  == IF ~t.ok THEN t ELSE GotSN(t, "f", "fr", SNCallShape(t.m.f, t.x))
CA_fx(t) == IF ~t.ok THEN t
            ELSE Got(t, "fx", Reshape(t.fr, <<-1, t.x[2] * t.x[3], t.m.key_size>>))
\* lines 229-233
CA_g(t)  == IF ~t.ok THEN t ELSE GotSN(t, "g", "gr", SNCallShape(t.m.g, t.x))
CA_gp(t) == IF ~t.ok THEN t ELSE Got(t, "gp", Pool(t.gr))
CA_gx(t) == IF ~t.ok THEN t
            ELSE Got(t, "gx", Reshape(t.gp, GxTarget(t.x[2], t.x[3], t.m.key_size)))
\* lines 234-236: s and beta = Softmax(axis=2)(s) have the same shape
CA_s(t)  == IF ~t.ok THEN t ELSE Got(t, "s", MatMul(t.fx, TransposeLast(t.gx)))
\* lines 238-240
CA_h(t)  == IF ~t.ok THEN t ELSE GotSN(t, "h", "hr", SNCallShape(t.m.h, t.x))
CA_hp(t) == IF ~t.ok THEN t ELSE Got(t, "hp", Pool(t.hr))
CA_hx(t) == IF ~t.ok THEN t
            ELSE Got(t, "hx", Reshape(t.hp, HxTarget(t.x[2], t.x[3], t.x[4])))
\* lines 242-243
CA_mm(t) == IF ~t.ok THEN t ELSE Got(t, "mm", MatMul(t.s, t.hx))
CA_interim(t) == IF ~t.ok THEN t
                 ELSE Got(t, "interim", Reshape(t.mm, <<-1, t.x[2], t.x[3], t.x[4] \div 2>>))
\* line 244
CA_out(t) == IF ~t.ok THEN t
             ELSE GotSN(t, "out", "o", SNCallShape(t.m.out, t.interim))

\* SelfAttentionModule.compute_attention on an input of shape x
compute_attention(m, x) ==
    CA_out(CA_interim(CA_mm(CA_hx(CA_hp(CA_h(CA_s(CA_gx(CA_gp(CA_g(CA_fx(CA_f(
        StartAttention(m, x)))))))))))))

\* The values of a tensor with n elements.  An input's values follow one of
\* a few patterns (seed); the attention output's values are not computed:
\* one finite pattern stands for them.
InputValues(n, seed) == Vec([i \in 1..n |-> (((i * seed) % 5) - 2) * Scale])
AttentionValues(n) == Vec([i \in 1..n |-> ((i % 3) + 1) * Scale + 1])

\* element i0 (from 0) of the broadcast of a tensor (shape a, values d) to shape s
RECURSIVE BroadcastIndex(_, _, _, _)
BroadcastIndex(a, s, i0, k) ==
    IF k = 0 THEN 0
    ELSE (IF a[k] = 1 THEN 0 ELSE (i0 % s[k]) * Prod(SubSeq(a, k + 1, Len(a))))
         + BroadcastIndex(a, s, i0 \div s[k], k - 1)

ElementAt(d, a, s, i) ==
    IF a = s THEN d[i] ELSE d[1 + BroadcastIndex(a, s, i - 1, Len(s))]

\* a variant that adds the attention output without the gate
BlendUngated(gamma, ov, xv) == FAdd(ov, xv)

\* one element of line 209: gamma * o + x
Blend(gamma, ov, xv) == FAdd(FMul(gamma, ov), xv)

\* y = self.gamma * o + x, on shapes and values
GateSum(gamma, oshape, odata, xshape, xdata, sum) ==
    IF ~sum.ok
    THEN [ok |-> FALSE, shape |-> <<>>, data |-> <<>>]
    ELSE [ok |-> TRUE, shape |-> sum.shape,
          data |-> Vec([i \in 1..Prod(sum.shape) |->
                          Blend(gamma, ElementAt(odata, oshape, sum.shape, i),
                                       ElementAt(xdata, xshape, sum.shape, i))])]

NoTensor == [shape |-> <<>>, data |-> <<>>]

SAIdle == [op |-> "none", status |-> "none", training |-> FALSE, gamma |-> 0,
           x |-> NoTensor, y |-> NoTensor, t |-> <<>>, built |-> <<>>]

\* SelfAttentionModule.call, given the finished compute_attention t and y
SACallDo(x, training, t, y) ==
    /\ sa' = t.m
    /\ saRes' = [op |-> "call",
                 status |-> IF t.ok /\ y.ok THEN "ok" ELSE "error",
                 training |-> training,
                 gamma |-> sa.gamma,
                 x |-> x,
                 y |-> IF t.ok /\ y.ok THEN [shape |-> y.shape, data |-> y.data] ELSE NoTensor,
                 t |-> [t EXCEPT !.m = <<>>],
                 built |-> <<sa.f.in_ch, sa.g.in_ch, sa.h.in_ch, sa.out.in_ch>>]

SACallWith(x, training, t) ==
    SACallDo(x, training, t,
             IF t.ok
             THEN GateSum(sa.gamma, t.o, AttentionValues(Prod(t.o)), x.shape, x.data,
                          BroadcastAdd(t.o, x.shape))
             ELSE [ok |-> FALSE, shape |-> <<>>, data |-> <<>>])

\* SelfAttentionModule.call(x, training)
SACall(x, training) == SACallWith(x, training, compute_attention(sa, x.shape))

----------------------------------------------------------------------------
(* ResidualBlock *)

\* ResidualBlock.__init__, lines 263-287
NewRB(stride, output_channels, first_block, last_block) ==
    [stride |-> stride,
     output_channels |-> output_channels,
     first_block |-> first_block,
     last_block |-> last_block,
     process_identity |-> NewSN(output_channels, 1, stride),
     conv_1 |-> NewSN(output_channels, 3, stride),
     conv_2 |-> NewSN(output_channels, 3, 1)]

\* The state of one call: the block m, the input shape x0, the pipeline
\* value h and the identity x (shapes), and whether line 319 was reached.
StartBlock(m, x) ==
    [ok |-> TRUE, m |-> m, x0 |-> x, h |-> x, x |-> x, added |-> FALSE, out |-> <<>>]

\* a variant with the condition inverted
PoolsPipelineInverted(m) == m.last_block

\* whether the pipeline output is pooled, line 308
PoolsPipeline(m) == ~m.last_block

\* whether the identity is pooled before its convolution, line 314
PoolsIdentity(m) == ~m.last_block

\* whether the identity is adjusted at all, line 312
AdjustsIdentity(h, x) == h # x

\* lines 299-300: ReLU keeps the shape, h = x either way
RB_relu(t) == t
\* lines 303-305
RB_conv_1(t) == IF ~t.ok THEN t ELSE GotSN(t, "conv_1", "h", SNCallShape(t.m.conv_1, t.h))
RB_conv_2(t) == IF ~t.ok THEN t ELSE GotSN(t, "conv_2", "h", SNCallShape(t.m.conv_2, t.h))
\* lines 308-309
RB_pool(t) == IF ~t.ok \/ ~PoolsPipeline(t.m) THEN t ELSE Got(t, "h", Pool(t.h))
\* lines 312-316
RB_pool_identity(t) ==
    IF ~t.ok \/ ~AdjustsIdentity(t.h, t.x0) \/ ~PoolsIdentity(t.m) THEN t
    ELSE Got(t, "x", Pool(t.x))
RB_process_identity(t) ==
    IF ~t.ok \/ ~AdjustsIdentity(t.h, t.x0) THEN t
    ELSE GotSN(t, "process_identity", "x", SNCallShape(t.m.process_identity, t.x))
\* line 319: x += h
RB_add(t) ==
    IF ~t.ok THEN t
    ELSE [Got(t, "out", BroadcastAdd(t.x, t.h)) EXCEPT !.added = TRUE]

\* ResidualBlock.call on an input of shape x
RBForward(m, x) ==
    RB_add(RB_process_identity(RB_pool_identity(RB_pool(RB_conv_2(RB_conv_1(RB_relu(
        StartBlock(m, x))))))))

RBIdle == [op |-> "none", status |-> "none", x0 |-> <<>>, h |-> <<>>, x |-> <<>>,
           added |-> FALSE, out |-> <<>>, built |-> <<>>]

RBCallDo(t) ==
    /\ rb' = t.m
    /\ rbRes' = [op |-> "call", status |-> IF t.ok THEN "ok" ELSE "error",
                 x0 |-> t.x0, h |-> t.h, x |-> t.x, added |-> t.added, out |-> t.out,
                 built |-> <<rb.conv_1.in_ch, rb.conv_2.in_ch, rb.process_identity.in_ch>>]

\* ResidualBlock.call(x, training); training only reaches the wrapped
\* convolutions' u, which has no shape effect
RBCall(x, training) == RBCallDo(RBForward(rb, x))

----------------------------------------------------------------------------
(* Bounds and value sets of the shape-level models *)

\* largest batch size
MaxBatch == 2
\* largest height and width fed to the SelfAttentionModule
MaxSide == 4
\* largest explicit key_size
MaxKey == 1
\* largest height and width fed to the ResidualBlock
MaxSpatial == 8

\* channel counts of SelfAttentionModule inputs and configurations
SAChannels == {1, 2, 8}
SAKeyArgs == {[given |-> FALSE, val |-> 0]} \cup {[given |-> TRUE, val |-> k] : k \in 1..MaxKey}
SAShapes == {<<b, h, w, c>> : b \in 1..MaxBatch, h \in 2..MaxSide, w \in 2..MaxSide,
                              c \in SAChannels}
Seeds == {1, 2}
\* values a gradient step can leave in gamma
Gammas == {0, Scale}

\* channel counts of ResidualBlock inputs and configurations
RBChannels == {3, 32, 64}
RBShapes == {<<b, h, w, c>> : b \in 1..MaxBatch, h \in 1..MaxSpatial, w \in 1..MaxSpatial,
                              c \in RBChannels}

----------------------------------------------------------------------------
(* Actions of the shape-level models *)

SNIdle ==
    /\ init = FALSE /\ u = <<>> /\ n_power_iterations = 1
    /\ layer = <<>> /\ last = NoOp /\ prev = Summary(NoOp) /\ initCount = 0

\* SelfAttentionModule(init_gain, output_channels, key_size)
SAConstruct ==
    /\ sa.status = "none"
    /\ \E oc \in SAChannels, keyArg \in SAKeyArgs :
          /\ sa' = NewSA(oc, keyArg)
          /\ saRes' = [SAIdle EXCEPT !.op = "construct",
                                     !.status = NewSA(oc, keyArg).status]
    /\ UNCHANGED <<snVars, rbVars, fw>>

SACallAny ==
    /\ sa.status = "ok"
    /\ saRes.op # "call"
    /\ \E xs \in SAShapes, seed \in Seeds, training \in BOOLEAN :
          SACall([shape |-> xs, data |-> InputValues(Prod(xs), seed)], training)
    /\ UNCHANGED <<snVars, rbVars, fw>>

\* an optimizer step on the trainable gate gamma, line 181
SAOptimizerStep ==
    /\ sa.status = "ok"
    /\ saRes.op # "call"
    /\ \E gm \in Gammas \ {sa.gamma} : sa' = [sa EXCEPT !.gamma = gm]
    /\ saRes' = [SAIdle EXCEPT !.op = "opt"]
    /\ UNCHANGED <<snVars, rbVars, fw>>

\* line 211: the caller takes the returned tensor; the module keeps its state
SAReturn ==
    /\ saRes.op = "call"
    /\ saRes' = SAIdle
    /\ UNCHANGED <<sa, snVars, rbVars, fw>>

RBCallAny ==
    /\ rbRes.op # "call"
    /\ \E xs \in RBShapes, training \in BOOLEAN : RBCall(xs, training)
    /\ UNCHANGED <<snVars, saVars, fw>>

\* line 321: the caller takes the returned tensor; the block keeps its state
RBReturn ==
    /\ rbRes.op = "call"
    /\ rbRes' = RBIdle
    /\ UNCHANGED <<rb, snVars, saVars, fw>>

----------------------------------------------------------------------------
(* Specifications *)

FwDefault == [strictFilters |-> FALSE, emptyPool |-> FALSE]

\* one SpectralNormalization instance around a 1x1 Conv2D, at value level
InitSN ==
    /\ SNInit
    /\ sa = [status |-> "none"] /\ saRes = SAIdle
    /\ rb = <<>> /\ rbRes = RBIdle
    /\ fw = FwDefault
NextSN == SNCallAny \/ OptimizerStep
SpecSN == InitSN /\ [][NextSN]_vars

\* one SelfAttentionModule, from before its construction
InitSA ==
    /\ SNIdle
    /\ sa = [status |-> "none"] /\ saRes = SAIdle
    /\ rb = <<>> /\ rbRes = RBIdle
    /\ \E st \in BOOLEAN : fw = [strictFilters |-> st, emptyPool |-> FALSE]
NextSA == SAConstruct \/ SACallAny \/ SAReturn \/ SAOptimizerStep
SpecSA == InitSA /\ [][NextSA]_vars

\* one ResidualBlock, from its construction
InitRB ==
    /\ SNIdle
    /\ sa = [status |-> "none"] /\ saRes = SAIdle
    /\ \E stride \in {1, 2}, oc \in RBChannels, first \in BOOLEAN, lastb \in BOOLEAN :
          rb = NewRB(stride, oc, first, lastb)
    /\ rbRes = RBIdle
    /\ \E ep \in BOOLEAN : fw = [strictFilters |-> FALSE, emptyPool |-> ep]
NextRB == RBCallAny \/ RBReturn
SpecRB == InitRB /\ [][NextRB]_vars

----------------------------------------------------------------------------
(* Properties of SpectralNormalization, under SpecSN *)

Orig == Var(layer, "kernel_orig")

\* C1: a call with training=False leaves u as it was at call entry, so an
\* inference call that follows an inference call on the same input (the
\* initialising call included) returns the same output; u changes only in a
\* step that is a call with training=True.
C1_InferenceLeavesU ==
    /\ [](last.op = "call" =>
            /\ (~last.training => u = last.uEntry)
            /\ (~last.training /\ prev.op = "call" /\ ~prev.training /\ prev.x = last.x
                   => last.output = prev.output))
    /\ [][u' # u => last'.op = "call" /\ last'.training]_vars

\* C1 witness: an inference call repeated right after the initialising
\* inference call on the same input, with the same finite output
C1_Witness ==
    /\ last.op = "call" /\ ~last.training /\ ~last.first
    /\ prev.op = "call" /\ ~prev.training /\ prev.first
    /\ prev.x = last.x /\ last.output = prev.output
    /\ \A o \in DOMAIN last.output : last.output[o] # NonFinite

\* C2: the init flag goes from FALSE to TRUE in the first call and stays TRUE;
\* the initialisation branch runs exactly once, leaving in kernel_orig a copy
\* of the kernel the convolution was built with; no later call runs the
\* branch or writes kernel_orig.
C2_InitOnce ==
    /\ [](initCount = (IF init THEN 1 ELSE 0))
    /\ [][/\ init => init'
          /\ (~init /\ last'.op = "call") =>
                /\ init' /\ last'.first
                /\ last'.builtKernel \in OrthogonalKernels
                /\ Var(layer', "kernel_orig") = last'.builtKernel
          /\ (init /\ last'.op = "call") =>
                /\ ~last'.first
                /\ Var(layer', "kernel_orig") = Orig
                /\ Len(layer'.weights) = Len(layer.weights)]_vars

\* C2 witness: a call on an initialised instance, after the first one
C2_Witness ==
    /\ init /\ initCount = 1
    /\ last.op = "call" /\ ~last.first
    /\ prev.op = "call" /\ prev.first

\* C3: after every call the kernel the convolution ran with is kernel_orig
\* divided by the sigma of that call, which is the one-pass estimate from
\* kernel_orig and the u stored at call entry; a call on an initialised
\* instance leaves kernel_orig and the bias as they were, and the first call
\* leaves the bias as built (zeros).
C3_ActiveWeightDerived ==
    last.op = "call" =>
        /\ ~layer.kernel_is_var
        /\ ~HasVar(layer, "kernel")
        /\ layer.kernel = Vec([k \in DOMAIN Orig |-> FQuot(Orig[k], last.spectral_norm)])
        /\ last.spectral_norm = Bilinear(last.u_computed, Orig, layer.filters,
                                         normalize_l2(MatTVec(Orig, layer.filters, last.uEntry)))
        /\ last.u_computed =
              normalize_l2(MatVec(Orig, layer.filters,
                                  normalize_l2(MatTVec(Orig, layer.filters, last.uEntry))))
        /\ last.output = ConvForward(layer, last.x)
        /\ (~last.first => Orig = last.origEntry)
        /\ (layer.use_bias /\ ~last.first => Var(layer, "bias") = last.biasEntry)
        /\ (layer.use_bias /\ last.first => Var(layer, "bias") = <<0, 0>>)

\* C3 witness: a call after an optimizer step moved kernel_orig, whose
\* normalised kernel is finite and differs from kernel_orig
C3_Witness ==
    /\ last.op = "call" /\ ~last.first /\ prev.op = "opt"
    /\ last.spectral_norm # 0 /\ last.spectral_norm # NonFinite
    /\ layer.kernel # Orig
    /\ layer.use_bias /\ Var(layer, "bias") # <<0, 0>>

\* the n-fold composition of the single-pass update, from u0
RECURSIVE ComposedSteps(_, _, _, _)
ComposedSteps(W, rows, u0, n) ==
    IF n = 1
    THEN PowerStep(W, rows, u0)
    ELSE PowerStep(W, rows, ComposedSteps(W, rows, u0, n - 1).u)

\* C9: power_iteration with n_power_iterations = n >= 1 returns the (sigma, u)
\* of n successive passes, each starting from the u of the pass before it
\* (the first from the stored u).
C9_NFoldComposition ==
    last.op = "call" =>
        [spectral_norm |-> last.spectral_norm, u |-> last.u_computed]
            = ComposedSteps(Orig, layer.filters, last.uEntry, n_power_iterations)

----------------------------------------------------------------------------
(* Properties of SelfAttentionModule, under SpecSA *)

Even(n) == n % 2 = 0

\* C4: a call made while gamma is 0 returns its input: the same shape and the
\* same values, for either value of training.
C4_ZeroGateIdentity ==
    (saRes.op = "call" /\ saRes.status = "ok" /\ saRes.gamma = 0) => saRes.y = saRes.x

\* C4 witness: a training call with gamma = 0 that returned, on an input
\* that is not all zeros
C4_Witness ==
    /\ saRes.op = "call" /\ saRes.status = "ok" /\ saRes.gamma = 0 /\ saRes.training
    /\ saRes.y = saRes.x
    /\ \E i \in DOMAIN saRes.x.data : saRes.x.data[i] # 0

\* C5: constructing with key_size omitted and output_channels < 8 ends in an
\* error; no module with zero-width f/g projections is produced.
C5_DegenerateKeyRejected ==
    (saRes.op = "construct" /\ ~sa.key_given /\ sa.output_channels < 8)
        => sa.status = "error"

\* the wrapped convolutions were, before the call, unbuilt or built for the
\* channel counts an input with c channels gives them
BuiltFor(built, c) ==
    /\ \A k \in 1..3 : built[k] \in {0, c}
    /\ built[4] \in {0, c \div 2}

\* C6: compute_attention on an input whose height or width is odd ends in an
\* error and returns no attention output (stated for inputs that are valid in
\* every other respect: C = output_channels, on a module not built for
\* another channel count).
C6_OddSpatialRejected ==
    (saRes.op = "call" /\ (~Even(saRes.x.shape[2]) \/ ~Even(saRes.x.shape[3]))
        /\ saRes.x.shape[4] = sa.output_channels
        /\ BuiltFor(saRes.built, saRes.x.shape[4]))
        => (~saRes.t.ok /\ saRes.t.o = <<>>)

\* the shapes compute_attention is to produce on input shape xs with key size ks
AttentionShapesAsSpecified(t, xs, ks) ==
    /\ t.ok
    /\ t.fx = <<xs[1], xs[2] * xs[3], ks>>
    /\ t.gx = <<xs[1], (xs[2] * xs[3]) \div 4, ks>>
    /\ t.hx = <<xs[1], (xs[2] * xs[3]) \div 4, xs[4] \div 2>>
    /\ t.interim = <<xs[1], xs[2], xs[3], xs[4] \div 2>>
    /\ Prod(t.fx) = Prod(t.fr) /\ Prod(t.gx) = Prod(t.gp)
    /\ Prod(t.hx) = Prod(t.hp) /\ Prod(t.interim) = Prod(t.mm)
    /\ t.o = xs

----------------------------------------------------------------------------
(* Properties of ResidualBlock, under SpecRB *)

\* the output shape claimed for a stride-1 block
Stride1Shape(xs, oc, last_block) ==
    IF last_block
    THEN <<xs[1], xs[2], xs[3], oc>>
    ELSE <<xs[1], xs[2] \div 2, xs[3] \div 2, oc>>

\* C8: with stride 1 a call maps [B, H, W, C] to [B, H div 2, W div 2,
\* output_channels], or to [B, H, W, output_channels] in the last block, for
\* every C and output_channels: every call that returns has that shape, and
\* every call with H, W >= 2 on a block not built for another channel count
\* returns.
C8_Stride1Shape ==
    (rbRes.op = "call" /\ rb.stride = 1) =>
        /\ rbRes.status = "ok" =>
              rbRes.out = Stride1Shape(rbRes.x0, rb.output_channels, rb.last_block)
        /\ (rbRes.x0[2] >= 2 /\ rbRes.x0[3] >= 2
               /\ rbRes.built[1] \in {0, rbRes.x0[4]}
               /\ rbRes.built[3] \in {0, rbRes.x0[4]})
              => rbRes.status = "ok"

\* C8 witness: output_channels=64, stride=1, first_block=False,
\* last_block=False on a 1x8x8x32 input gives 1x4x4x64
C8_Witness ==
    /\ rbRes.op = "call" /\ rbRes.status = "ok"
    /\ rb.stride = 1 /\ rb.output_channels = 64 /\ ~rb.first_block /\ ~rb.last_block
    /\ rbRes.x0 = <<1, 8, 8, 32>>
    /\ rbRes.out = <<1, 4, 4, 64>>

\* C10: for H, W >= 2, either stride, either last_block and every channel
\* count, the two operands of the skip-connection addition of line 319 have
\* the same shape.
C10_SkipOperandsSameShape ==
    (rbRes.op = "call" /\ rbRes.added /\ rbRes.x0[2] >= 2 /\ rbRes.x0[3] >= 2)
        => rbRes.x = rbRes.h

====
